---- MODULE Spec2Model ----
(***************************************************************************)
(* The polling engine of @rezzed.ai/poll-hooks (class Poller) together     *)
(* with the work source it polls (the TaskSource interface, with the       *)
(* claim/complete bookkeeping of MockTaskSource).                          *)
(*                                                                         *)
(* Every async method of Poller is a coroutine.  A frame is one call in    *)
(* flight; its pc names the external call (hook or source call) it is      *)
(* awaiting.  One step of the model is one run-to-completion segment of    *)
(* JavaScript: the awaited call settles (returns or throws), the code      *)
(* runs up to the next await, and the next call is issued.                 *)
(***************************************************************************)
EXTENDS Integers, Sequences, FiniteSets, TLC

\* ------------------------------------------------------------------ bounds

\* Timers of one engine that may be pending at once.
MaxPending == 2

\* Tasks in a collection handed to triage.
MaxTasks == 3

\* Poller instances that may exist, and the places a call can be in flight:
\* "api" is a start() or poll() made by the embedding program, "timer" is a
\* poll() made by a setTimeout callback, "stop" is a stop().
Workers == {"w1", "w2"}
Solo == {"w1"}
Slots == {"api", "timer", "stop"}
CycleSlots == {"api", "timer"}

\* ------------------------------------------------------------------- types

PRIORITY_ORDER ==
  [p \in {"interrupt", "sprint", "parallel", "queue", "backlog"} |->
     CASE p = "interrupt" -> 0
       [] p = "sprint" -> 1
       [] p = "parallel" -> 2
       [] p = "queue" -> 3
       [] p = "backlog" -> 4]

\* The rank triage gives a priority that PRIORITY_ORDER does not know.
UnknownRank == 999

\* The tasks and the messages that reach the source, in their order of
\* arrival: triage has to move the second task before the first.
TaskArrivals ==
  << [id |-> "t1", priority |-> "backlog"],
     [id |-> "t2", priority |-> "interrupt"] >>

MessageArrivals ==
  << [id |-> "m1", source |-> "worker-2", type |-> "STATUS"],
     [id |-> "m2", source |-> "worker-3", type |-> "PING"] >>

\* Constructor options: intervalMs, backoffMultiplier, maxIntervalMs.  The
\* first is the configuration of the backoff tests; the constructor checks
\* nothing, so a base above the maximum and a multiplier below one are
\* accepted as well.
Configs ==
  { [baseInterval |-> 1000, backoffMultiplier |-> 2, maxInterval |-> 5000],
    [baseInterval |-> 3000, backoffMultiplier |-> 2, maxInterval |-> 2000],
    [baseInterval |-> 1000, backoffMultiplier |-> 0, maxInterval |-> 5000] }

TestConfig ==
  [baseInterval |-> 1000, backoffMultiplier |-> 2, maxInterval |-> 5000]

NoTask == [id |-> "none", priority |-> "none"]

VARIABLES
  poller,   \* poller[w]: the fields of Poller instance w
  frame,    \* frame[w][s]: the call of w in flight in slot s
  source,   \* the shared TaskSource: tasks, messages, claims, completed
  started   \* history: started[id], the instances that invoked onTaskStart
            \* for task id

vars == <<poller, frame, source, started>>

\* ------------------------------------------------------------------ triage

\* Property names that PRIORITY_ORDER, an object literal, inherits from
\* Object.prototype: PRIORITY_ORDER[name] is a function, which ?? lets pass
\* and which the subtraction of the comparator turns into NaN.
Inherited == {"constructor", "toString"}

\* The value that stands for NaN.
NaN == -1

\* PRIORITY_ORDER[task.priority] ?? 999, as a number.
Rank(task) ==
  IF task.priority \in DOMAIN PRIORITY_ORDER
    THEN PRIORITY_ORDER[task.priority]
  ELSE IF task.priority \in Inherited
    THEN NaN
    ELSE UnknownRank

\* The comparator of triage, as sort reads it: a NaN counts as 0.
Compare(a, b) ==
  IF Rank(a) = NaN \/ Rank(b) = NaN THEN 0 ELSE Rank(a) - Rank(b)

\* Array.prototype.sort is stable: a task goes behind every task already
\* placed whose rank is not greater than its own.
RECURSIVE InsertByRank(_, _)
InsertByRank(sorted, task) ==
  IF sorted = <<>> THEN <<task>>
  ELSE IF Compare(Head(sorted), task) <= 0
    THEN <<Head(sorted)>> \o InsertByRank(Tail(sorted), task)
    ELSE <<task>> \o sorted

RECURSIVE SortFrom(_, _)
SortFrom(sorted, rest) ==
  IF rest = <<>> THEN sorted
  ELSE SortFrom(InsertByRank(sorted, Head(rest)), Tail(rest))

triage(tasks) == SortFrom(<<>>, tasks)

\* The comparator orders the tasks consistently: sort then is the stable
\* sort above.  It does not when a NaN makes tasks of different ranks
\* compare equal through a third one; the order sort leaves then is
\* implementation-defined.
Consistent(tasks) ==
  \A a, b, c \in 1..Len(tasks) :
    (Compare(tasks[a], tasks[b]) = 0 /\ Compare(tasks[b], tasks[c]) = 0)
      => Compare(tasks[a], tasks[c]) = 0

Orders(tasks) ==
  { [k \in 1..Len(tasks) |-> tasks[f[k]]] :
      f \in { g \in [1..Len(tasks) -> 1..Len(tasks)] :
                \A a, b \in 1..Len(tasks) : g[a] = g[b] => a = b } }

\* A call of triage: the sequences it may return, and the array it was
\* given after the call ([...tasks] sorts a copy).
triageCall(tasks) ==
  { [result |-> r, input |-> tasks] :
      r \in IF Consistent(tasks) THEN {triage(tasks)} ELSE Orders(tasks) }

\* ------------------------------------------------------------------ source

\* MockTaskSource.getTasks: the tasks not yet completed.
getTasks(src) == SelectSeq(src.tasks, LAMBDA t : t.id \notin src.completed)

getMessages(src) == src.messages

\* MockTaskSource.claim: test-and-set; the result and the source after it.
claim(src, taskId) ==
  IF taskId \in src.claims
    THEN [claimed |-> FALSE, src |-> src]
    ELSE [claimed |-> TRUE, src |-> [src EXCEPT !.claims = @ \cup {taskId}]]

complete(src, taskId) == [src EXCEPT !.completed = @ \cup {taskId}]

\* The text without the identifier of the message.
AckTextNoId(msg) == <<"Received ", msg.type>>

\* The text of an acknowledgement: `Received ${msg.type}: ${msg.id}`.
AckText(msg) == <<"Received ", msg.type, ": ", msg.id>>

\* ------------------------------------------------------------------ frames

Call(op, arg) == [op |-> op, arg |-> arg]

NoResult == [kind |-> "none"]
VoidResult == [kind |-> "void"]
PollResult(tasks, messages) ==
  [kind |-> "poll", tasks |-> tasks, messages |-> messages]

NoErr == [phase |-> "none", task |-> NoTask]

FreeFrame ==
  [ pc |-> "free",        \* the call awaited; "done": returned, not yet seen
    sorted |-> <<>>,      \* poll(): the triaged tasks
    messages |-> <<>>,    \* poll(): the fetched messages
    i |-> 0,              \* index in sorted of the task being processed
    j |-> 0,              \* index in messages of the message being acked
    err |-> NoErr,        \* the context handed to onError
    after |-> "none",     \* the catch block handleError was called from
    log |-> <<>>,         \* calls issued for the item in hand, in order
                          \* (the boot, the fetch, onWork, one task, one
                          \* message, onIdle, the shutdown)
    acked |-> <<>>,       \* source.ack calls issued in this cycle, in order
    stopped |-> FALSE,    \* history: stop() ran while this cycle was
                          \* processing a task
    result |-> NoResult ] \* what the call returned

Returned(f, result) == [FreeFrame EXCEPT !.pc = "done", !.result = result]

\* ------------------------------------------------------------------ engine

\* Poller.constructor
NewPoller(options) ==
  [ baseInterval |-> options.baseInterval,
    maxInterval |-> options.maxInterval,
    backoffMultiplier |-> options.backoffMultiplier,
    currentInterval |-> options.baseInterval,
    phase |-> "boot",
    running |-> FALSE,
    timer |-> "null",     \* "null", or the handle of a timer: "live" while
                          \* it is pending, "fired" once it has gone off
    orphans |-> 0 ]       \* pending timers whose handle this.timer lost

Min(a, b) == IF a <= b THEN a ELSE b

\* scheduleNext without the setTimeout.
scheduleNextNever(p) == p

\* Poller.scheduleNext
scheduleNext(p) ==
  IF ~p.running THEN p
  ELSE [p EXCEPT !.timer = "live",
                 !.orphans = IF p.timer = "live" THEN @ + 1 ELSE @]

\* handleError with the phase of the context fixed to "work".
handleErrorTagsWork(f, phase, task, after) ==
  [f EXCEPT !.pc = "onError",
            !.err = [phase |-> "work", task |-> task],
            !.after = after,
            !.log = Append(@, Call("onError", [phase |-> "work", task |-> task]))]

\* Poller.handleError: onError is invoked with the error and the context;
\* the frame awaits it.
handleError(f, phase, task, after) ==
  [f EXCEPT !.pc = "onError",
            !.err = [phase |-> phase, task |-> task],
            !.after = after,
            !.log = Append(@, Call("onError", [phase |-> phase, task |-> task]))]

\* The end of poll(): schedule the next cycle and return what was processed.
Finish(p, f) ==
  [p |-> scheduleNext(p),
   f |-> Returned(f, PollResult(f.sorted, f.messages))]

\* poll(): the loop that acknowledges the messages, from message k on.
AckLoop(p, f, k) ==
  IF k <= Len(f.messages)
    THEN [p |-> p,
          f |-> [f EXCEPT !.pc = "ack", !.j = k,
                   !.log = <<Call("ack", <<f.messages[k].source, AckText(f.messages[k])>>)>>,
                   !.acked = Append(@, <<f.messages[k].source, AckText(f.messages[k])>>)]]
    ELSE Finish(p, f)

\* The task loop leaving at the first task after the first (a denied claim
\* or a failure ends the loop).
TaskLoopFirstOnly(p, f, k) ==
  IF k <= 1 /\ k <= Len(f.sorted) /\ p.running
    THEN [p |-> p,
          f |-> [f EXCEPT !.pc = "claim", !.i = k,
                   !.log = <<Call("claim", f.sorted[k].id)>>]]
    ELSE AckLoop(p, f, 1)

\* poll(): the loop that processes the tasks, from task k on; processTask
\* begins with the claim.
TaskLoop(p, f, k) ==
  IF k <= Len(f.sorted) /\ p.running
    THEN [p |-> p,
          f |-> [f EXCEPT !.pc = "claim", !.i = k,
                   !.log = <<Call("claim", f.sorted[k].id)>>]]
    ELSE AckLoop(p, f, 1)

\* processTask going on whatever source.claim returned.
AfterClaimIgnored(p, f, claimed) ==
  [p |-> p,
   f |-> [f EXCEPT !.pc = "onTaskStart",
            !.log = Append(@, Call("onTaskStart", f.sorted[f.i]))]]

\* processTask after source.claim has returned.
AfterClaim(p, f, claimed) ==
  IF claimed
    THEN [p |-> p,
          f |-> [f EXCEPT !.pc = "onTaskStart",
                   !.log = Append(@, Call("onTaskStart", f.sorted[f.i]))]]
    ELSE TaskLoop(p, f, f.i + 1)

\* processTask invoking onTaskComplete before source.complete.
AfterTaskStartHookFirst(f) ==
  [f EXCEPT !.pc = "onTaskComplete",
            !.log = Append(@, Call("onTaskComplete", f.sorted[f.i]))]

\* processTask after onTaskStart has returned, and after source.complete has.
AfterTaskStart(f) ==
  [f EXCEPT !.pc = "complete", !.log = Append(@, Call("complete", f.sorted[f.i].id))]

AfterComplete(f) ==
  [f EXCEPT !.pc = "onTaskComplete",
            !.log = Append(@, Call("onTaskComplete", f.sorted[f.i]))]

\* poll() after a successful fetch: triage, then the work or the idle branch.
Backoff(p) == Min(p.currentInterval * p.backoffMultiplier, p.maxInterval)

\* The work branch without the reset of the interval.
AfterFetchNoReset(p, f, tasks, messages) ==
  LET sorted == triage(tasks) IN
  IF Len(sorted) > 0 \/ Len(messages) > 0
    THEN [p |-> [p EXCEPT !.phase = "work"],
          f |-> [f EXCEPT !.pc = "onWork", !.sorted = sorted, !.messages = messages,
                   !.log = <<Call("onWork", <<sorted, messages>>)>>]]
    ELSE [p |-> [p EXCEPT !.phase = "idle", !.currentInterval = Backoff(p)],
          f |-> [f EXCEPT !.pc = "onIdle", !.sorted = sorted, !.messages = messages,
                   !.log = <<Call("onIdle", "workerId")>>]]

AfterFetch(p, f, tasks, messages) ==
  LET sorted == triage(tasks) IN
  IF Len(sorted) > 0 \/ Len(messages) > 0
    THEN [p |-> [p EXCEPT !.phase = "work", !.currentInterval = p.baseInterval],
          f |-> [f EXCEPT !.pc = "onWork", !.sorted = sorted, !.messages = messages,
                   !.log = <<Call("onWork", <<sorted, messages>>)>>]]
    ELSE [p |-> [p EXCEPT !.phase = "idle", !.currentInterval = Backoff(p)],
          f |-> [f EXCEPT !.pc = "onIdle", !.sorted = sorted, !.messages = messages,
                   !.log = <<Call("onIdle", "workerId")>>]]

\* poll() without the running check.
BeginPollUnguarded(p, f) ==
  [p |-> p,
   f |-> [FreeFrame EXCEPT !.pc = "fetch",
            !.log = <<Call("getTasks", <<>>), Call("getMessages", <<>>)>>]]

\* The beginning of poll().
BeginPoll(p, f) ==
  IF ~p.running
    THEN [p |-> p, f |-> Returned(f, PollResult(<<>>, <<>>))]
    ELSE [p |-> p,
          f |-> [FreeFrame EXCEPT !.pc = "fetch",
                   !.log = <<Call("getTasks", <<>>), Call("getMessages", <<>>)>>]]

\* Slips in the code after a catch block: the fetch failure that returns
\* without scheduleNext, the task failure that leaves the task loop, the
\* failure of onError that ends the call, the boot failure that goes on to
\* poll(), the task failure that still marks the task complete.
AfterErrorSlip(p, f, threw, slip) ==
  LET g == [f EXCEPT !.err = NoErr, !.after = "none"] IN
  CASE slip = "rethrow" /\ threw -> [p |-> p, f |-> Returned(g, [kind |-> "raised"])]
    [] f.after = "boot" /\ slip = "polls" -> BeginPoll(p, g)
    [] f.after = "fetch" /\ slip = "unscheduled" ->
         [p |-> p, f |-> Returned(g, PollResult(<<>>, <<>>))]
    [] f.after = "task" /\ slip = "break" -> AckLoop(p, g, 1)
    [] f.after = "task" /\ slip = "finally" ->
         [p |-> p,
          f |-> [g EXCEPT !.pc = "complete",
                   !.log = <<Call("complete", f.sorted[f.i].id)>>]]
    [] f.after = "boot" -> [p |-> [p EXCEPT !.running = FALSE], f |-> Returned(g, VoidResult)]
    [] f.after = "shutdown" -> [p |-> p, f |-> Returned(g, VoidResult)]
    [] f.after = "fetch" -> [p |-> scheduleNext(p), f |-> Returned(g, PollResult(<<>>, <<>>))]
    [] f.after = "work" -> TaskLoop(p, g, 1)
    [] f.after = "task" -> TaskLoop(p, g, f.i + 1)
    [] f.after = "ack" -> AckLoop(p, g, f.j + 1)
    [] f.after = "idle" -> Finish(p, g)

AfterErrorFetchUnscheduled(p, f, threw) == AfterErrorSlip(p, f, threw, "unscheduled")

AfterErrorTaskBreaks(p, f, threw) == AfterErrorSlip(p, f, threw, "break")

AfterErrorRethrows(p, f, threw) == AfterErrorSlip(p, f, threw, "rethrow")

AfterErrorBootPolls(p, f, threw) == AfterErrorSlip(p, f, threw, "polls")

AfterErrorCompletes(p, f, threw) == AfterErrorSlip(p, f, threw, "finally")

\* What follows the await of handleError, by the catch block it was in.
\* threw: onError itself threw; the empty catch of handleError drops that.
AfterError(p, f, threw) ==
  LET g == [f EXCEPT !.err = NoErr, !.after = "none"] IN
  CASE f.after = "boot" -> [p |-> [p EXCEPT !.running = FALSE], f |-> Returned(g, VoidResult)]
    [] f.after = "shutdown" -> [p |-> p, f |-> Returned(g, VoidResult)]
    [] f.after = "fetch" -> [p |-> scheduleNext(p), f |-> Returned(g, PollResult(<<>>, <<>>))]
    [] f.after = "work" -> TaskLoop(p, g, 1)
    [] f.after = "task" -> TaskLoop(p, g, f.i + 1)
    [] f.after = "ack" -> AckLoop(p, g, f.j + 1)
    [] f.after = "idle" -> Finish(p, g)

\* stop(), up to the await of onShutdown.
StopEngine(p) ==
  [p EXCEPT !.running = FALSE,
            !.timer = "null",       \* clearTimeout, if a handle is stored
            !.phase = "shutdown"]

\* ----------------------------------------------------------------- actions

Pending(p) == p.orphans + (IF p.timer = "live" THEN 1 ELSE 0)

\* The poll cycles of w in flight (a start() awaiting onBoot is about to
\* become one).
InFlight(w) ==
  Cardinality({s \in CycleSlots : frame[w][s].pc \notin {"free", "done"}})

\* Every cycle in flight ends by setting a timer.
Room(w) == Pending(poller[w]) + InFlight(w) < MaxPending

\* The engine and the frame after a step.  The program awaits its start()
\* and poll() calls and sees what they return; what a timer's callback
\* returns is dropped, and stop() returns nothing.
Set(w, s, r) ==
  /\ poller' = [poller EXCEPT ![w] = r.p]
  /\ frame' = [frame EXCEPT ![w][s] =
                  IF r.f.pc = "done" /\ s # "api" THEN FreeFrame ELSE r.f]

\* start() beginning the new run at baseInterval.
StartCallResets(w) ==
  /\ frame[w]["api"].pc = "free"
  /\ ~poller[w].running
  /\ Room(w)
  /\ Set(w, "api",
         [p |-> [poller[w] EXCEPT !.running = TRUE, !.phase = "boot",
                                  !.currentInterval = poller[w].baseInterval],
          f |-> [FreeFrame EXCEPT !.pc = "onBoot", !.log = <<Call("onBoot", w)>>]])
  /\ UNCHANGED <<source, started>>

\* start() on an engine that is not running, up to the await of onBoot.
StartCall(w) ==
  /\ frame[w]["api"].pc = "free"
  /\ ~poller[w].running
  /\ Room(w)
  /\ Set(w, "api",
         [p |-> [poller[w] EXCEPT !.running = TRUE, !.phase = "boot"],
          f |-> [FreeFrame EXCEPT !.pc = "onBoot", !.log = <<Call("onBoot", w)>>]])
  /\ UNCHANGED <<source, started>>

\* start() while no poll cycle of the engine is in flight, and while one is
\* (a cycle that stop() did not interrupt).
Start(w) == InFlight(w) = 0 /\ StartCall(w)

StartOverlapping(w) == InFlight(w) > 0 /\ StartCall(w)

\* start() without the running check: it boots again.
StartRunningBoots(w) ==
  /\ frame[w]["api"].pc = "free"
  /\ poller[w].running
  /\ Set(w, "api",
         [p |-> [poller[w] EXCEPT !.phase = "boot"],
          f |-> [FreeFrame EXCEPT !.pc = "onBoot", !.log = <<Call("onBoot", w)>>]])
  /\ UNCHANGED <<source, started>>

\* start() on a running engine returns at once.
StartRunning(w) ==
  /\ frame[w]["api"].pc = "free"
  /\ poller[w].running
  /\ Set(w, "api", [p |-> poller[w], f |-> Returned(FreeFrame, VoidResult)])
  /\ UNCHANGED <<source, started>>

\* start() returning on a false onBoot without running = false.
BootReturnStaysRunning(w) ==
  LET p == poller[w]
      f == frame[w]["api"] IN
  /\ f.pc = "onBoot"
  /\ \/ Set(w, "api", [p |-> p, f |-> Returned(f, VoidResult)])
     \/ Set(w, "api", [p |-> p, f |-> handleError(f, "boot", NoTask, "boot")])
     \/ Set(w, "api", BeginPoll(p, f))
  /\ UNCHANGED <<source, started>>

\* onBoot settles: it returned false, it threw, or start() goes on to poll().
BootReturn(w) ==
  LET p == poller[w]
      f == frame[w]["api"] IN
  /\ f.pc = "onBoot"
  /\ \/ Set(w, "api", [p |-> [p EXCEPT !.running = FALSE], f |-> Returned(f, VoidResult)])
     \/ Set(w, "api", [p |-> p, f |-> handleError(f, "boot", NoTask, "boot")])
     \/ Set(w, "api", BeginPoll(p, f))
  /\ UNCHANGED <<source, started>>

\* The frame is inside processTask.
TaskPcs == {"claim", "onTaskStart", "complete", "onTaskComplete"}

InTask(f) == f.pc \in TaskPcs \/ (f.pc = "onError" /\ f.after = "task")

\* stop(), up to the await of onShutdown.  A cycle that is processing a
\* task goes on; that stop() ran meanwhile is recorded in its frame.
Stop(w) ==
  /\ frame[w]["stop"].pc = "free"
  /\ poller' = [poller EXCEPT ![w] = StopEngine(poller[w])]
  /\ frame' = [frame EXCEPT ![w] =
                  [s \in Slots |->
                     IF s = "stop"
                       THEN [FreeFrame EXCEPT !.pc = "onShutdown",
                                              !.log = <<Call("onShutdown", w)>>]
                     ELSE IF InTask(frame[w][s])
                       THEN [frame[w][s] EXCEPT !.stopped = TRUE]
                     ELSE frame[w][s]]]
  /\ UNCHANGED <<source, started>>

ShutdownReturn(w) ==
  LET f == frame[w]["stop"] IN
  /\ f.pc = "onShutdown"
  /\ \/ Set(w, "stop", [p |-> poller[w], f |-> Returned(f, VoidResult)])
     \/ Set(w, "stop", [p |-> poller[w], f |-> handleError(f, "shutdown", NoTask, "shutdown")])
  /\ UNCHANGED <<source, started>>

\* poll() called by the embedding program.
PollCall(w) ==
  /\ frame[w]["api"].pc = "free"
  /\ poller[w].running => Room(w)
  /\ Set(w, "api", BeginPoll(poller[w], FreeFrame))
  /\ UNCHANGED <<source, started>>

\* poll() while no poll cycle of the engine is in flight, and while the
\* cycle of a timer is.
Poll(w) == InFlight(w) = 0 /\ PollCall(w)

PollOverlapping(w) == InFlight(w) > 0 /\ PollCall(w)

\* A pending timer goes off and its callback calls poll(): the timer whose
\* handle this.timer holds, or one whose handle was overwritten.
TimerCallback(w) ==
  LET p == poller[w] IN
  /\ frame[w]["timer"].pc = "free"
  /\ \/ /\ p.timer = "live"
        /\ Set(w, "timer", BeginPoll([p EXCEPT !.timer = "fired"], FreeFrame))
     \/ /\ p.orphans > 0
        /\ Set(w, "timer", BeginPoll([p EXCEPT !.orphans = @ - 1], FreeFrame))
  /\ UNCHANGED <<source, started>>

\* A timer goes off while no poll cycle of the engine is in flight, and
\* while a start() or poll() of the program is.
TimerFire(w) == InFlight(w) = 0 /\ TimerCallback(w)

TimerFireOverlapping(w) == InFlight(w) > 0 /\ TimerCallback(w)

\* Promise.all([getTasks(), getMessages()]) settles.
FetchReturn(w, s) ==
  LET p == poller[w]
      f == frame[w][s] IN
  /\ f.pc = "fetch"
  /\ \/ Set(w, s, AfterFetch(p, f, getTasks(source), getMessages(source)))
     \/ Set(w, s, [p |-> p, f |-> handleError(f, p.phase, NoTask, "fetch")])
  /\ UNCHANGED <<source, started>>

WorkReturn(w, s) ==
  LET p == poller[w]
      f == frame[w][s] IN
  /\ f.pc = "onWork"
  /\ \/ Set(w, s, TaskLoop(p, f, 1))
     \/ Set(w, s, [p |-> p, f |-> handleError(f, "work", NoTask, "work")])
  /\ UNCHANGED <<source, started>>

\* processTask: source.claim settles.
ClaimReturn(w, s) ==
  LET p == poller[w]
      f == frame[w][s]
      task == f.sorted[f.i]
      c == claim(source, task.id) IN
  /\ f.pc = "claim"
  /\ \/ /\ source' = c.src
        /\ Set(w, s, AfterClaim(p, f, c.claimed))
        /\ started' = IF frame'[w][s].pc = "onTaskStart"
                        THEN [started EXCEPT ![task.id] = @ \cup {w}]
                        ELSE started
     \/ /\ Set(w, s, [p |-> p, f |-> handleError(f, "work", task, "task")])
        /\ UNCHANGED <<source, started>>

TaskStartReturn(w, s) ==
  LET p == poller[w]
      f == frame[w][s]
      task == f.sorted[f.i] IN
  /\ f.pc = "onTaskStart"
  /\ \/ Set(w, s, [p |-> p, f |-> AfterTaskStart(f)])
     \/ Set(w, s, [p |-> p, f |-> handleError(f, "work", task, "task")])
  /\ UNCHANGED <<source, started>>

\* processTask: source.complete settles.
CompleteReturn(w, s) ==
  LET p == poller[w]
      f == frame[w][s]
      task == f.sorted[f.i] IN
  /\ f.pc = "complete"
  /\ \/ /\ source' = complete(source, task.id)
        /\ Set(w, s, [p |-> p, f |-> AfterComplete(f)])
     \/ /\ UNCHANGED source
        /\ Set(w, s, [p |-> p, f |-> handleError(f, "work", task, "task")])
  /\ UNCHANGED started

TaskCompleteReturn(w, s) ==
  LET p == poller[w]
      f == frame[w][s]
      task == f.sorted[f.i] IN
  /\ f.pc = "onTaskComplete"
  /\ \/ Set(w, s, TaskLoop(p, f, f.i + 1))
     \/ Set(w, s, [p |-> p, f |-> handleError(f, "work", task, "task")])
  /\ UNCHANGED <<source, started>>

\* source.ack settles.
AckReturn(w, s) ==
  LET p == poller[w]
      f == frame[w][s] IN
  /\ f.pc = "ack"
  /\ \/ Set(w, s, AckLoop(p, f, f.j + 1))
     \/ Set(w, s, [p |-> p, f |-> handleError(f, "work", NoTask, "ack")])
  /\ UNCHANGED <<source, started>>

IdleReturn(w, s) ==
  LET p == poller[w]
      f == frame[w][s] IN
  /\ f.pc = "onIdle"
  /\ \/ Set(w, s, Finish(p, f))
     \/ Set(w, s, [p |-> p, f |-> handleError(f, "idle", NoTask, "idle")])
  /\ UNCHANGED <<source, started>>

\* onError settles, by returning or by throwing.
ErrorReturn(w, s) ==
  /\ frame[w][s].pc = "onError"
  /\ \E threw \in BOOLEAN : Set(w, s, AfterError(poller[w], frame[w][s], threw))
  /\ UNCHANGED <<source, started>>

\* The caller of a finished call takes its result.
Return(w, s) ==
  /\ frame[w][s].pc = "done"
  /\ frame' = [frame EXCEPT ![w][s] = FreeFrame]
  /\ UNCHANGED <<poller, source, started>>

\* MockTaskSource.addTask / addMessage: work arrives at the source.
AddTask ==
  /\ Len(source.tasks) < Len(TaskArrivals)
  /\ source' = [source EXCEPT !.tasks = Append(@, TaskArrivals[Len(@) + 1])]
  /\ UNCHANGED <<poller, frame, started>>

AddMessage ==
  /\ Len(source.messages) < Len(MessageArrivals)
  /\ source' = [source EXCEPT !.messages = Append(@, MessageArrivals[Len(@) + 1])]
  /\ UNCHANGED <<poller, frame, started>>

\* ----------------------------------------------------------- specification

\* MockTaskSource.constructor
NewSource == [tasks |-> <<>>, messages |-> <<>>, claims |-> {}, completed |-> {}]

TaskIds == {TaskArrivals[k].id : k \in 1..Len(TaskArrivals)}

\* One engine, with any of the configurations, on an empty source that work
\* reaches later.  The program and the timers start a poll cycle only when
\* none is in flight.
Init ==
  /\ \E c \in Configs : poller = [w \in Solo |-> NewPoller(c)]
  /\ frame = [w \in Solo |-> [s \in Slots |-> FreeFrame]]
  /\ source = NewSource
  /\ started = [id \in TaskIds |-> {}]

Next ==
  \/ \E w \in DOMAIN poller : Start(w)
  \/ \E w \in DOMAIN poller : StartRunning(w)
  \/ \E w \in DOMAIN poller : BootReturn(w)
  \/ \E w \in DOMAIN poller : Stop(w)
  \/ \E w \in DOMAIN poller : ShutdownReturn(w)
  \/ \E w \in DOMAIN poller : Poll(w)
  \/ \E w \in DOMAIN poller : TimerFire(w)
  \/ \E w \in DOMAIN poller, s \in Slots : FetchReturn(w, s)
  \/ \E w \in DOMAIN poller, s \in Slots : WorkReturn(w, s)
  \/ \E w \in DOMAIN poller, s \in Slots : ClaimReturn(w, s)
  \/ \E w \in DOMAIN poller, s \in Slots : TaskStartReturn(w, s)
  \/ \E w \in DOMAIN poller, s \in Slots : CompleteReturn(w, s)
  \/ \E w \in DOMAIN poller, s \in Slots : TaskCompleteReturn(w, s)
  \/ \E w \in DOMAIN poller, s \in Slots : AckReturn(w, s)
  \/ \E w \in DOMAIN poller, s \in Slots : IdleReturn(w, s)
  \/ \E w \in DOMAIN poller, s \in Slots : ErrorReturn(w, s)
  \/ \E w \in DOMAIN poller, s \in Slots : Return(w, s)
  \/ AddTask
  \/ AddMessage

Spec == Init /\ [][Next]_vars

\* A frame's step: the call it awaits settles.
Settle(w, s) ==
  \/ FetchReturn(w, s)
  \/ WorkReturn(w, s)
  \/ ClaimReturn(w, s)
  \/ TaskStartReturn(w, s)
  \/ CompleteReturn(w, s)
  \/ TaskCompleteReturn(w, s)
  \/ AckReturn(w, s)
  \/ IdleReturn(w, s)
  \/ ErrorReturn(w, s)

\* Every call in flight settles and every pending timer goes off: the
\* hooks and the source return, and the event loop runs its timers.
Step(w, s) ==
  \/ Settle(w, s)
  \/ s = "api" /\ BootReturn(w)
  \/ s = "stop" /\ ShutdownReturn(w)

\* A source that holds every task and no message, and one that holds every
\* message and no task.
LoadedSource == [NewSource EXCEPT !.tasks = TaskArrivals]

MessageSource == [NewSource EXCEPT !.messages = MessageArrivals]

\* One engine on a source that holds its work from the beginning, under the
\* fairness above.
FairInit ==
  /\ poller = [w \in Solo |-> NewPoller(TestConfig)]
  /\ frame = [w \in Solo |-> [s \in Slots |-> FreeFrame]]
  /\ source \in {LoadedSource, MessageSource}
  /\ started = [id \in TaskIds |-> {}]

FairNext ==
  \/ \E w \in DOMAIN poller : Start(w)
  \/ \E w \in DOMAIN poller : StartRunning(w)
  \/ \E w \in DOMAIN poller : Stop(w)
  \/ \E w \in DOMAIN poller : Poll(w)
  \/ \E w \in DOMAIN poller : TimerFire(w)
  \/ \E w \in DOMAIN poller, s \in Slots : Step(w, s)
  \/ \E w \in DOMAIN poller, s \in Slots : Return(w, s)

FairSpec ==
  /\ FairInit
  /\ [][FairNext]_vars
  /\ \A w \in Solo : \A s \in Slots : WF_vars(Step(w, s))
  /\ \A w \in Solo : WF_vars(TimerFire(w))

\* One engine on a loaded source, where the program and the timers also
\* start poll cycles while another one is in flight.
ConcInit ==
  /\ poller = [w \in Solo |-> NewPoller(TestConfig)]
  /\ frame = [w \in Solo |-> [s \in Slots |-> FreeFrame]]
  /\ source = LoadedSource
  /\ started = [id \in TaskIds |-> {}]

ConcNext ==
  \/ \E w \in DOMAIN poller : Start(w)
  \/ \E w \in DOMAIN poller : StartOverlapping(w)
  \/ \E w \in DOMAIN poller : StartRunning(w)
  \/ \E w \in DOMAIN poller : BootReturn(w)
  \/ \E w \in DOMAIN poller : Stop(w)
  \/ \E w \in DOMAIN poller : ShutdownReturn(w)
  \/ \E w \in DOMAIN poller : Poll(w)
  \/ \E w \in DOMAIN poller : PollOverlapping(w)
  \/ \E w \in DOMAIN poller : TimerFire(w)
  \/ \E w \in DOMAIN poller : TimerFireOverlapping(w)
  \/ \E w \in DOMAIN poller, s \in Slots : FetchReturn(w, s)
  \/ \E w \in DOMAIN poller, s \in Slots : WorkReturn(w, s)
  \/ \E w \in DOMAIN poller, s \in Slots : ClaimReturn(w, s)
  \/ \E w \in DOMAIN poller, s \in Slots : TaskStartReturn(w, s)
  \/ \E w \in DOMAIN poller, s \in Slots : CompleteReturn(w, s)
  \/ \E w \in DOMAIN poller, s \in Slots : TaskCompleteReturn(w, s)
  \/ \E w \in DOMAIN poller, s \in Slots : IdleReturn(w, s)
  \/ \E w \in DOMAIN poller, s \in Slots : ErrorReturn(w, s)
  \/ \E w \in DOMAIN poller, s \in Slots : Return(w, s)

ConcSpec == ConcInit /\ [][ConcNext]_vars

\* Two engines that poll one loaded source, each started by its program and
\* then driven by its timers.
MultiInit ==
  /\ poller = [w \in Workers |-> NewPoller(TestConfig)]
  /\ frame = [w \in Workers |-> [s \in Slots |-> FreeFrame]]
  /\ source = LoadedSource
  /\ started = [id \in TaskIds |-> {}]

MultiNext ==
  \/ \E w \in DOMAIN poller : Start(w)
  \/ \E w \in DOMAIN poller : BootReturn(w)
  \/ \E w \in DOMAIN poller : TimerFire(w)
  \/ \E w \in DOMAIN poller, s \in Slots : FetchReturn(w, s)
  \/ \E w \in DOMAIN poller, s \in Slots : WorkReturn(w, s)
  \/ \E w \in DOMAIN poller, s \in Slots : ClaimReturn(w, s)
  \/ \E w \in DOMAIN poller, s \in Slots : TaskStartReturn(w, s)
  \/ \E w \in DOMAIN poller, s \in Slots : CompleteReturn(w, s)
  \/ \E w \in DOMAIN poller, s \in Slots : TaskCompleteReturn(w, s)
  \/ \E w \in DOMAIN poller, s \in Slots : IdleReturn(w, s)
  \/ \E w \in DOMAIN poller, s \in Slots : ErrorReturn(w, s)
  \/ \E w \in DOMAIN poller, s \in Slots : Return(w, s)

MultiSpec == MultiInit /\ [][MultiNext]_vars

\* The priorities of the tasks handed to triage: the five known ones, a
\* name that is none of them, a task without priority, and names that
\* Object.prototype defines.
TriagePriorities ==
  DOMAIN PRIORITY_ORDER \cup {"urgent", "undefined"} \cup Inherited

\* The collections handed to triage: up to MaxTasks distinct tasks.
TriageInputs ==
  LET Tasks == [id : 1..MaxTasks, priority : TriagePriorities] IN
  { t \in UNION { [1..n -> Tasks] : n \in 0..MaxTasks } :
      \A a, b \in 1..Len(t) : t[a].id = t[b].id => a = b }

\* The program calls poller.triage on the array source.tasks and holds what
\* it returned; the array is what the call left of it.
TriageCall(w) ==
  /\ frame[w]["api"].pc = "free"
  /\ \E r \in triageCall(source.tasks) :
       /\ source' = [source EXCEPT !.tasks = r.input]
       /\ frame' = [frame EXCEPT ![w]["api"] =
                       [FreeFrame EXCEPT !.pc = "done",
                          !.log = <<Call("triage", source.tasks)>>,
                          !.result = [kind |-> "triage", tasks |-> r.result]]]
  /\ UNCHANGED <<poller, started>>

\* An engine that is not started, and a program that calls triage on any of
\* the collections.
TriageInit ==
  /\ poller = [w \in Solo |-> NewPoller(TestConfig)]
  /\ frame = [w \in Solo |-> [s \in Slots |-> FreeFrame]]
  /\ \E t \in TriageInputs : source = [NewSource EXCEPT !.tasks = t]
  /\ started = [id \in TaskIds |-> {}]

TriageNext ==
  \/ \E w \in DOMAIN poller : TriageCall(w)
  \/ \E w \in DOMAIN poller : Return(w, "api")

TriageSpec == TriageInit /\ [][TriageNext]_vars

\* ------------------------------------------------------------------ claims

\* The call of frame f made a step to g (stop() only leaves its mark).
Stepped(f, g) == [g EXCEPT !.stopped = f.stopped] # f

\* The frame is inside a poll cycle that passed the running check.
InCycle(f) ==
  \/ f.pc \in {"fetch", "onWork", "claim", "onTaskStart", "complete",
               "onTaskComplete", "ack", "onIdle"}
  \/ f.pc = "onError" /\ f.after \notin {"boot", "shutdown"}

\* C1: whatever throws in a poll cycle that passed the running check, the
\* cycle finishes, and when it finishes on a running engine a timer for the
\* next cycle is pending; hence, while the engine stays running and every
\* call returns, poll cycles begin again and again.
C1_LoopStaysAlive ==
  /\ [][\A w \in Solo : \A s \in CycleSlots :
          ( /\ InCycle(frame[w][s])
            /\ ~InCycle(frame'[w][s])
            /\ poller'[w].running )
          => poller'[w].timer = "live"]_vars
  /\ \A w \in Solo : \A s \in CycleSlots :
       InCycle(frame[w][s]) ~> ~InCycle(frame[w][s])
  /\ \A w \in Solo :
       []<>(~poller[w].running \/ \E s \in CycleSlots : frame[w][s].pc = "fetch")

\* A cycle whose fetch failed has finished (the phase is still boot) and has
\* set the timer of the next one.
C1_Witness ==
  \E w \in Solo :
    /\ poller[w].running
    /\ poller[w].phase = "boot"
    /\ poller[w].timer = "live"
    /\ frame[w]["api"].pc = "done"
    /\ frame[w]["api"].result = PollResult(<<>>, <<>>)

\* The calls of processTask for one task, in the order the protocol gives.
TaskCalls(task) ==
  << Call("claim", task.id), Call("onTaskStart", task),
     Call("complete", task.id), Call("onTaskComplete", task) >>

\* C2: the calls made for a task are claim, onTaskStart, complete,
\* onTaskComplete, in that order and each only after the one before it
\* returned; the tasks are taken one at a time in triage order, the claim of
\* the next one being issued only when the one before was completed, denied
\* or failed.
C2_ClaimThenExecute ==
  /\ [](\A w \in DOMAIN poller : \A s \in Slots :
          LET f == frame[w][s]
              n == IF f.pc = "onError" THEN Len(f.log) - 1 ELSE Len(f.log) IN
          /\ \A a \in 1..Len(f.sorted) : \A b \in a..Len(f.sorted) :
               Rank(f.sorted[a]) <= Rank(f.sorted[b])
          /\ InTask(f) =>
               /\ f.i \in 1..Len(f.sorted)
               /\ n \in 1..4
               /\ SubSeq(f.log, 1, n) = SubSeq(TaskCalls(f.sorted[f.i]), 1, n)
               /\ f.pc \in TaskPcs => f.log[n].op = f.pc)
  /\ [][\A w \in DOMAIN poller : \A s \in Slots :
          LET f == frame[w][s]
              g == frame'[w][s] IN
          (g.pc = "claim" /\ (f.pc # "claim" \/ g.i # f.i)) =>
            \/ /\ g.i = 1
               /\ f.pc = "onWork" \/ (f.pc = "onError" /\ f.after = "work")
            \/ /\ g.i = f.i + 1
               /\ g.sorted = f.sorted
               /\ \/ f.pc = "claim"
                  \/ f.pc = "onTaskComplete"
                  \/ f.pc = "onError" /\ f.after = "task"]_vars

\* The second task of a cycle has gone through the whole protocol.
C2_Witness ==
  \E w \in DOMAIN poller : \E s \in Slots :
    /\ frame[w][s].pc = "onTaskComplete"
    /\ frame[w][s].i = 2
    /\ frame[w][s].log = TaskCalls(frame[w][s].sorted[2])
    /\ Rank(frame[w][s].sorted[1]) < Rank(frame[w][s].sorted[2])

\* C3: when claim returns false for a task, nothing else is called for it:
\* no onTaskStart, no complete, no onTaskComplete, no onError; the cycle
\* goes on with the next task (or, after the last one, with the messages).
C3_DeniedClaimIsSilent ==
  [][\A w \in DOMAIN poller : \A s \in Slots :
       LET f == frame[w][s]
           g == frame'[w][s] IN
       ( /\ f.pc = "claim"
         /\ Stepped(f, g)
         /\ g.pc # "onError"
         /\ f.sorted[f.i].id \in source.claims )
       => /\ g.pc \in {"claim", "ack", "done", "free"}
          /\ g.pc = "claim" => (g.i = f.i + 1 /\ g.sorted = f.sorted)
          /\ (f.i < Len(f.sorted) /\ poller[w].running) => g.pc = "claim"
          /\ source' = source
          /\ started' = started
          /\ \A k \in 1..Len(g.log) :
               g.log[k].op \notin {"onTaskStart", "complete", "onTaskComplete", "onError"}]_vars

\* A running engine awaits the claim of a task that is already claimed, with
\* another task behind it.
C3_Witness ==
  \E w \in DOMAIN poller : \E s \in Slots :
    /\ frame[w][s].pc = "claim"
    /\ frame[w][s].i < Len(frame[w][s].sorted)
    /\ frame[w][s].sorted[frame[w][s].i].id \in source.claims
    /\ poller[w].running

\* C4: with two engines on one source whose claim is a test-and-set, at most
\* one engine ever invokes onTaskStart for a task, and only that engine
\* calls complete and onTaskComplete for it.
C4_SingleClaimant ==
  /\ \A id \in TaskIds : Cardinality(started[id]) <= 1
  /\ \A w \in DOMAIN poller : \A s \in Slots :
       frame[w][s].pc \in {"onTaskStart", "complete", "onTaskComplete"}
         => started[frame[w][s].sorted[frame[w][s].i].id] = {w}

\* One engine awaits the claim of a task that the other engine has started.
C4_Witness ==
  \E w \in DOMAIN poller : \E v \in DOMAIN poller : \E s \in Slots :
    /\ w # v
    /\ frame[v][s].pc = "claim"
    /\ started[frame[v][s].sorted[frame[v][s].i].id] = {w}

InRange(p) ==
  p.baseInterval <= p.currentInterval /\ p.currentInterval <= p.maxInterval

\* C5 as stated: the backoff interval of every engine is in
\* [baseInterval, maxInterval], whatever the options.
C5_AsStated == \A w \in DOMAIN poller : InRange(poller[w])

\* C6: a cycle whose fetch succeeds sets the phase to work and the interval
\* to baseInterval when a task or a message was fetched, and otherwise sets
\* the phase to idle and the interval to min(interval * multiplier, max);
\* with 1000, 2, 5000 the interval only takes the values 1000, 2000, 4000,
\* 5000.
C6_BackoffTransition ==
  /\ [][\A w \in DOMAIN poller : \A s \in CycleSlots :
          LET f == frame[w][s]
              g == frame'[w][s]
              p == poller[w]
              q == poller'[w] IN
          (f.pc = "fetch" /\ g.pc \notin {"fetch", "onError"}) =>
            IF Len(getTasks(source)) > 0 \/ Len(getMessages(source)) > 0
              THEN /\ g.pc = "onWork"
                   /\ q.phase = "work"
                   /\ q.currentInterval = p.baseInterval
              ELSE /\ g.pc = "onIdle"
                   /\ q.phase = "idle"
                   /\ q.currentInterval =
                        IF p.currentInterval * p.backoffMultiplier <= p.maxInterval
                          THEN p.currentInterval * p.backoffMultiplier
                          ELSE p.maxInterval]_vars
  /\ [](\A w \in DOMAIN poller :
          (poller[w].baseInterval = 1000 /\ poller[w].backoffMultiplier = 2
             /\ poller[w].maxInterval = 5000)
            => poller[w].currentInterval \in {1000, 2000, 4000, 5000})

\* The third idle cycle in a row, of an engine with 1000, 2, 5000.
C6_Witness ==
  \E w \in DOMAIN poller : \E s \in CycleSlots :
    /\ poller[w].baseInterval = 1000
    /\ poller[w].phase = "idle"
    /\ poller[w].currentInterval = 4000
    /\ frame[w][s].pc = "onIdle"

\* The acknowledgements a message collection calls for: target and text.
ExpectedAcks(messages) ==
  [k \in 1..Len(messages) |->
     <<messages[k].source, <<"Received ", messages[k].type, ": ", messages[k].id>>>>]

\* C7: the messages of a cycle are what getMessages returned; the acks
\* issued are, in order, one per message, to the message's source, with the
\* text `Received {type}: {id}`, and nothing else is acked; a cycle that
\* fetched does not end before every message has its ack.
C7_AckProtocol ==
  /\ [](\A w \in DOMAIN poller : \A s \in Slots :
          LET f == frame[w][s] IN
          /\ Len(f.acked) <= Len(f.messages)
          /\ f.acked = SubSeq(ExpectedAcks(f.messages), 1, Len(f.acked))
          /\ f.pc = "ack" => Len(f.acked) = f.j
          /\ f.pc \in {"onWork"} \cup TaskPcs => f.acked = <<>>)
  /\ [][\A w \in DOMAIN poller : \A s \in Slots :
          LET f == frame[w][s]
              g == frame'[w][s] IN
          /\ (f.pc = "fetch" /\ g.pc \in {"onWork", "onIdle"})
               => g.messages = getMessages(source)
          /\ ( /\ InCycle(f)
               /\ ~InCycle(g)
               /\ f.pc # "fetch"
               /\ ~(f.pc = "onError" /\ f.after = "fetch") )
               => f.acked = ExpectedAcks(f.messages)]_vars

\* The second of two messages is being acknowledged.
C7_Witness ==
  \E w \in DOMAIN poller : \E s \in Slots :
    /\ frame[w][s].pc = "ack"
    /\ frame[w][s].j = 2
    /\ Len(frame[w][s].acked) = 2
    /\ frame[w][s].acked[1] # frame[w][s].acked[2]

\* The phase a failure of each hook is reported with.
HookPhase ==
  [op \in {"onBoot", "onWork", "onTaskStart", "onTaskComplete", "onIdle", "onShutdown"} |->
     CASE op = "onBoot" -> "boot"
       [] op = "onIdle" -> "idle"
       [] op = "onShutdown" -> "shutdown"
       [] OTHER -> "work"]

Finished(f) == f.pc \in {"done", "free"}

\* C8: a hook that throws makes one onError call, tagged with the phase of
\* the hook, and no second one; after it the cycle goes on: with the first
\* task after onWork, with the next task after onTaskStart or
\* onTaskComplete, with the messages after the last task, and with the
\* timer of the next cycle after onIdle.
C8_HookFailureReported ==
  /\ [](\A w \in DOMAIN poller : \A s \in Slots :
          LET f == frame[w][s]
              n == Len(f.log) IN
          /\ f.pc = "onError" <=> (n >= 1 /\ f.log[n].op = "onError")
          /\ \A k \in 1..(n - 1) : f.log[k].op # "onError"
          /\ (f.pc = "onError" /\ f.log[n - 1].op \in DOMAIN HookPhase) =>
               /\ f.log[n].arg.phase = HookPhase[f.log[n - 1].op]
               /\ f.err.phase = HookPhase[f.log[n - 1].op])
  /\ [][\A w \in DOMAIN poller : \A s \in Slots :
          LET f == frame[w][s]
              g == frame'[w][s]
              p == poller[w]
              q == poller'[w]
              rest == IF Len(f.messages) > 0
                        THEN g.pc = "ack" /\ g.j = 1
                        ELSE Finished(g) /\ (p.running => q.timer = "live") IN
          (f.pc = "onError" /\ Stepped(f, g)) =>
            /\ g.pc # "onError"
            /\ f.after = "work" =>
                 IF p.running /\ Len(f.sorted) > 0
                   THEN g.pc = "claim" /\ g.i = 1
                   ELSE rest
            /\ f.after = "task" =>
                 IF p.running /\ f.i < Len(f.sorted)
                   THEN g.pc = "claim" /\ g.i = f.i + 1
                   ELSE rest
            /\ f.after = "idle" => (Finished(g) /\ (p.running => q.timer = "live"))
            /\ f.after = "boot" => (Finished(g) /\ ~q.running)
            /\ f.after = "shutdown" => Finished(g)]_vars

\* onTaskStart threw for the first of two tasks: onError is awaited, tagged
\* work, with the second task still to come.
C8_Witness ==
  \E w \in DOMAIN poller : \E s \in Slots :
    LET f == frame[w][s] IN
    /\ f.pc = "onError"
    /\ f.log[Len(f.log) - 1].op = "onTaskStart"
    /\ f.err.phase = "work"
    /\ f.i < Len(f.sorted)
    /\ poller[w].running

\* C9 as stated: an engine never has two poll cycles in progress.
C9_AsStated ==
  \A w \in DOMAIN poller :
    Cardinality({s \in CycleSlots : InCycle(frame[w][s])}) <= 1

\* C10 as stated: between a stop() and the next start() no timer of the
\* engine is pending.
C10_AsStated ==
  \A w \in DOMAIN poller :
    (~poller[w].running /\ poller[w].phase = "shutdown") => Pending(poller[w]) = 0

\* A step of start(): the call is issued, on an engine that is not running.
Starts(w) == frame[w]["api"].pc # "onBoot" /\ frame'[w]["api"].pc = "onBoot"

\* C11 as stated: once stop() has set the phase to shutdown, the phase stays
\* shutdown and the engine stays not running until start() is called, also
\* when a poll cycle is in flight.
C11_AsStated ==
  [][\A w \in DOMAIN poller :
       (poller[w].phase = "shutdown" /\ ~poller[w].running /\ ~Starts(w))
         => (poller'[w].phase = "shutdown" /\ ~poller'[w].running)]_vars

\* A task is claimed that was not being claimed before the step.
ClaimIssued(f, g) == g.pc = "claim" /\ (f.pc # "claim" \/ g.i # f.i)

\* C12 as stated: when stop() ran while a cycle was processing a task, that
\* task goes through the rest of its steps and no later task of the cycle
\* is claimed.
C12_AsStated ==
  [][\A w \in DOMAIN poller : \A s \in CycleSlots :
       LET f == frame[w][s]
           g == frame'[w][s] IN
       (f.stopped /\ Stepped(f, g) /\ g.pc # "onError") =>
         /\ ~ClaimIssued(f, g)
         /\ f.pc = "onTaskStart" => g.pc = "complete"
         /\ f.pc = "complete" => g.pc = "onTaskComplete"]_vars

\* While the engine is not running, no task is claimed; a stopped cycle
\* ends its task and goes on to the messages.
C12_WhileNotRunning ==
  [][\A w \in DOMAIN poller : \A s \in CycleSlots :
       LET f == frame[w][s]
           g == frame'[w][s] IN
       /\ (ClaimIssued(f, g)) => poller[w].running
       /\ (f.stopped /\ ~poller[w].running /\ Stepped(f, g) /\ g.pc # "onError") =>
            /\ f.pc = "onTaskStart" => g.pc = "complete"
            /\ f.pc = "complete" => g.pc = "onTaskComplete"
            /\ f.pc = "onTaskComplete" => g.pc \in {"ack", "done", "free"}]_vars

\* C13: when the fetch of a cycle fails, onError is invoked once, with the
\* phase the engine is in; poll() then sets the timer of the next cycle if
\* the engine is running and returns empty collections; phase and interval
\* stay as they were, and no hook other than onError and no claim, complete
\* or ack is called in the cycle.
C13_FetchFailure ==
  /\ [](\A w \in DOMAIN poller : \A s \in CycleSlots :
          LET f == frame[w][s] IN
          (f.pc = "onError" /\ f.after = "fetch") =>
            /\ f.log = << Call("getTasks", <<>>), Call("getMessages", <<>>),
                          Call("onError", f.err) >>
            /\ f.err.task = NoTask
            /\ f.acked = <<>>)
  /\ [][\A w \in DOMAIN poller : \A s \in CycleSlots :
          LET f == frame[w][s]
              g == frame'[w][s]
              p == poller[w]
              q == poller'[w] IN
          /\ (f.pc = "fetch" /\ g.pc = "onError") =>
               /\ g.after = "fetch"
               /\ g.err.phase = p.phase
               /\ q = p
               /\ source' = source
          /\ (f.pc = "onError" /\ f.after = "fetch" /\ Stepped(f, g)) =>
               /\ Finished(g)
               /\ s = "api" => g.result = PollResult(<<>>, <<>>)
               /\ q.phase = p.phase
               /\ q.currentInterval = p.currentInterval
               /\ q.running = p.running
               /\ IF p.running THEN q.timer = "live" ELSE q = p
               /\ source' = source]_vars

\* The fetch failed after an idle cycle had raised the interval: onError is
\* awaited with the phase idle.
C13_Witness ==
  \E w \in DOMAIN poller : \E s \in CycleSlots :
    /\ frame[w][s].pc = "onError"
    /\ frame[w][s].after = "fetch"
    /\ frame[w][s].err.phase = "idle"
    /\ poller[w].currentInterval > poller[w].baseInterval
    /\ poller[w].running

\* C14: a failure at a step of a task (claim, onTaskStart, complete,
\* onTaskComplete) is reported once through onError, tagged work, with the
\* task; none of the task's later steps is made, and the cycle goes on with
\* the next task (on a running engine) and then with the messages.  A failed
\* ack is reported once, tagged work, and the next message is acknowledged.
C14_ItemIsolation ==
  [][\A w \in DOMAIN poller : \A s \in CycleSlots :
       LET f == frame[w][s]
           g == frame'[w][s]
           p == poller[w]
           messages == IF Len(f.messages) > 0
                         THEN g.pc = "ack" /\ g.j = 1 /\ g.messages = f.messages
                         ELSE Finished(g) IN
       /\ (f.pc \in TaskPcs /\ g.pc = "onError") =>
            /\ g.after = "task"
            /\ g.err = [phase |-> "work", task |-> f.sorted[f.i]]
            /\ g.log = Append(f.log, Call("onError", g.err))
            /\ g.i = f.i /\ g.sorted = f.sorted
            /\ source' = source
       /\ (f.pc = "ack" /\ g.pc = "onError") =>
            /\ g.after = "ack"
            /\ g.err = [phase |-> "work", task |-> NoTask]
            /\ g.log = Append(f.log, Call("onError", g.err))
            /\ g.j = f.j /\ g.messages = f.messages
       /\ (f.pc = "onError" /\ f.after = "task" /\ Stepped(f, g)) =>
            /\ source' = source
            /\ IF p.running /\ f.i < Len(f.sorted)
                 THEN /\ g.pc = "claim" /\ g.i = f.i + 1 /\ g.sorted = f.sorted
                      /\ g.log = <<Call("claim", f.sorted[f.i + 1].id)>>
                 ELSE messages
       /\ (f.pc = "onError" /\ f.after = "ack" /\ Stepped(f, g)) =>
            IF f.j < Len(f.messages)
              THEN g.pc = "ack" /\ g.j = f.j + 1 /\ g.messages = f.messages
              ELSE Finished(g)]_vars

\* source.complete failed for the first of two tasks of a running engine.
C14_Witness ==
  \E w \in DOMAIN poller : \E s \in CycleSlots :
    LET f == frame[w][s] IN
    /\ f.pc = "onError"
    /\ f.after = "task"
    /\ f.log[Len(f.log) - 1].op = "complete"
    /\ f.i < Len(f.sorted)
    /\ poller[w].running

\* C15: however onError settles, by returning or by throwing, it is not
\* invoked again; the call it was made in goes on as after a normal return
\* (the next task, the next message, the timer of the next cycle) and
\* start(), stop() and poll() return without raising.
C15_ErrorHookSwallowed ==
  [][\A w \in DOMAIN poller : \A s \in Slots :
       LET f == frame[w][s]
           g == frame'[w][s]
           p == poller[w]
           q == poller'[w] IN
       (f.pc = "onError" /\ Stepped(f, g)) =>
         /\ g.pc # "onError"
         /\ g.err = NoErr
         /\ \A k \in 1..Len(g.log) : g.log[k].op # "onError"
         /\ g.pc = "done" => g.result.kind \in {"void", "poll"}
         /\ q.phase = p.phase
         /\ q.currentInterval = p.currentInterval
         /\ q.running = (p.running /\ f.after # "boot")
         /\ (Finished(g) /\ q.running /\ f.after # "shutdown") => q.timer = "live"
         /\ (~Finished(g)) => g.pc \in {"claim", "ack"}]_vars

\* onIdle threw on a running engine and onError is awaited.
C15_Witness ==
  \E w \in DOMAIN poller : \E s \in Slots :
    /\ frame[w][s].pc = "onError"
    /\ frame[w][s].after = "idle"
    /\ poller[w].running

\* C16: when onBoot returns false, start() returns with the engine not
\* running and nothing else changed: no timer is set, no cycle begins, no
\* source call and no hook (onError included) is made.  Whenever start()
\* returns right after onBoot, the engine is not running.
C16_BootDecline ==
  [][\A w \in DOMAIN poller :
       LET f == frame[w]["api"]
           g == frame'[w]["api"]
           p == poller[w]
           q == poller'[w] IN
       (f.pc = "onBoot" /\ Stepped(f, g)) =>
         /\ f.log = <<Call("onBoot", w)>>
         /\ g.pc \in {"done", "onError", "fetch"}
         /\ g.pc = "fetch" => p.running
         /\ g.pc = "done" =>
              /\ ~q.running
              /\ q = [p EXCEPT !.running = FALSE]
              /\ g.log = <<>>
              /\ frame'[w]["timer"] = frame[w]["timer"]
              /\ source' = source
              /\ started' = started]_vars

\* start() has returned on a source that holds a task: the engine is in the
\* phase boot, not running, no timer is pending and no task was claimed.
C16_Witness ==
  \E w \in DOMAIN poller :
    /\ frame[w]["api"].pc = "done"
    /\ frame[w]["api"].result = VoidResult
    /\ ~poller[w].running
    /\ poller[w].phase = "boot"
    /\ Pending(poller[w]) = 0
    /\ Len(source.tasks) > 0
    /\ source.claims = {}

\* C17: when onBoot throws, onError is invoked once, tagged boot, with no
\* task; after it start() returns without raising, with the engine not
\* running, and makes no fetch and sets no timer.
C17_BootFailure ==
  [][\A w \in DOMAIN poller :
       LET f == frame[w]["api"]
           g == frame'[w]["api"]
           p == poller[w]
           q == poller'[w] IN
       /\ (f.pc = "onBoot" /\ g.pc = "onError") =>
            /\ g.after = "boot"
            /\ g.err = [phase |-> "boot", task |-> NoTask]
            /\ g.log = <<Call("onBoot", w), Call("onError", g.err)>>
            /\ q = p
            /\ source' = source
       /\ (f.pc = "onError" /\ f.after = "boot" /\ Stepped(f, g)) =>
            /\ g.pc = "done"
            /\ g.result = VoidResult
            /\ q = [p EXCEPT !.running = FALSE]
            /\ frame'[w]["timer"] = frame[w]["timer"]
            /\ source' = source]_vars

\* onBoot threw on a source that holds a task, and onError is awaited.
C17_Witness ==
  \E w \in DOMAIN poller :
    /\ frame[w]["api"].pc = "onError"
    /\ frame[w]["api"].after = "boot"
    /\ poller[w].running
    /\ Len(source.tasks) > 0

\* C18: poll() on an engine that is not running returns empty collections
\* and changes nothing: engine, source and hooks are left alone; the poll()
\* of a timer's callback begins no cycle either.
C18_PollNotRunning ==
  [][\A w \in DOMAIN poller :
       LET f == frame[w]["api"]
           g == frame'[w]["api"]
           p == poller[w]
           q == poller'[w] IN
       /\ (~p.running /\ f.pc = "free" /\ g.pc \notin {"free", "onBoot"}) =>
            /\ g.pc = "done"
            /\ g.result = PollResult(<<>>, <<>>)
            /\ g.log = <<>>
            /\ q = p
            /\ source' = source
            /\ started' = started
       /\ (~p.running /\ frame[w]["timer"].pc = "free") =>
            /\ frame'[w]["timer"].pc = "free"
            /\ (q.timer # p.timer \/ q.orphans # p.orphans) =>
                 /\ q.phase = p.phase
                 /\ q.currentInterval = p.currentInterval
                 /\ q.running = p.running
                 /\ Pending(q) < Pending(p)
                 /\ source' = source]_vars

\* poll() has returned on a stopped engine whose source holds a task.
C18_Witness ==
  \E w \in DOMAIN poller :
    /\ frame[w]["api"].pc = "done"
    /\ frame[w]["api"].result = PollResult(<<>>, <<>>)
    /\ ~poller[w].running
    /\ poller[w].phase = "shutdown"
    /\ Len(source.tasks) > Cardinality(source.completed)

\* C19 as stated: stop() on an engine that a stop() has already stopped
\* changes nothing in the engine and invokes no hook.
C19_AsStated ==
  [][\A w \in DOMAIN poller :
       ( /\ ~poller[w].running
         /\ poller[w].phase = "shutdown"
         /\ frame[w]["stop"].pc = "free"
         /\ frame'[w]["stop"].pc # "free" )
       => /\ poller'[w] = poller[w]
          /\ frame'[w]["stop"].pc # "onShutdown"]_vars

\* C20: start() on a running engine returns at once: onBoot is not
\* invoked, no cycle begins, no timer is set, and phase and interval stay.
C20_StartWhileRunning ==
  [][\A w \in DOMAIN poller :
       LET f == frame[w]["api"]
           g == frame'[w]["api"]
           p == poller[w]
           q == poller'[w] IN
       (p.running /\ f.pc = "free" /\ g.pc # "free") =>
         /\ g.pc \in {"done", "fetch"}
         /\ g.pc = "done" =>
              /\ g.result = VoidResult
              /\ g.log = <<>>
              /\ q = p
              /\ frame'[w]["timer"] = frame[w]["timer"]
              /\ source' = source
              /\ started' = started]_vars

\* start() has returned on an engine that is running in the phase work.
C20_Witness ==
  \E w \in DOMAIN poller :
    /\ frame[w]["api"].pc = "done"
    /\ frame[w]["api"].result = VoidResult
    /\ poller[w].running
    /\ poller[w].phase = "work"
    /\ poller[w].timer = "live"

\* The rank the contract gives a task: 0..4 for the known priorities, and
\* one rank behind them for every other priority and for none.
RankAsStated(task) ==
  IF task.priority \in DOMAIN PRIORITY_ORDER
    THEN PRIORITY_ORDER[task.priority]
    ELSE 5

Position(tasks, task) == CHOOSE k \in 1..Len(tasks) : tasks[k] = task

\* What triage returned for input is a sequence of the same tasks, in
\* ascending rank, tasks of equal rank in their input order, and the array
\* it was given still is the input.
TriagedAsStated(input, left, output) ==
  /\ left = input
  /\ output \in Orders(input)
  /\ \A a, b \in 1..Len(output) :
       a < b => RankAsStated(output[a]) <= RankAsStated(output[b])
  /\ \A a, b \in 1..Len(input) :
       (a < b /\ RankAsStated(input[a]) = RankAsStated(input[b]))
         => Position(output, input[a]) < Position(output, input[b])

\* C21 as stated: for every task collection triage returns the same tasks in
\* ascending rank, every unknown or missing priority behind the known ones,
\* equal ranks in input order, and leaves the input as it was.
C21_AsStated ==
  \A w \in DOMAIN poller :
    LET f == frame[w]["api"] IN
    f.result.kind = "triage"
      => TriagedAsStated(f.log[1].arg, source.tasks, f.result.tasks)

\* The same, for the collections in which no priority is a name that
\* Object.prototype defines.
C21_OwnNames ==
  \A w \in DOMAIN poller :
    LET f == frame[w]["api"] IN
    (f.result.kind = "triage"
       /\ \A k \in 1..Len(f.log[1].arg) : f.log[1].arg[k].priority \notin Inherited)
      => TriagedAsStated(f.log[1].arg, source.tasks, f.result.tasks)

\* C22 as stated: an engine never has more than one timer pending.
C22_AsStated == \A w \in DOMAIN poller : Pending(poller[w]) <= 1

\* Some call of an engine is at the step of processTask that follows the
\* claim of task id and comes before its completion.
Processing(id) ==
  \E w \in DOMAIN poller : \E s \in CycleSlots :
    /\ frame[w][s].pc \in {"onTaskStart", "complete"}
    /\ frame[w][s].sorted[frame[w][s].i].id = id

\* Task id is claimed and not completed, and no call is processing it.
Abandoned(id) ==
  id \in source.claims /\ id \notin source.completed /\ ~Processing(id)

\* C23: the engines never take a claim back; a failure of onTaskStart or of
\* source.complete leaves the task claimed and not completed with all its
\* later steps dropped, and from then on it stays so: every later claim for
\* it is denied, no engine starts it again and none completes it.
C23_NoReleaseAfterFailure ==
  [][/\ source.claims \subseteq source'.claims
     /\ \A w \in DOMAIN poller : \A s \in CycleSlots :
          LET f == frame[w][s]
              g == frame'[w][s] IN
          (f.pc \in {"onTaskStart", "complete"} /\ g.pc = "onError")
            => /\ Abandoned(f.sorted[f.i].id)'
               /\ \A k \in 1..Len(g.log) : g.log[k].op # "onTaskComplete"
     /\ \A id \in TaskIds :
          Abandoned(id) => (Abandoned(id)' /\ started'[id] = started[id])]_vars

\* A task was started once, failed, and is not completed; in a later cycle
\* an engine awaits its claim for it.
C23_Witness ==
  \E id \in TaskIds :
    /\ Abandoned(id)
    /\ started[id] # {}
    /\ \E w \in DOMAIN poller : \E s \in CycleSlots :
         /\ frame[w][s].pc = "claim"
         /\ frame[w][s].sorted[frame[w][s].i].id = id

\* C24: stop() and start() leave the backoff interval as it is; the interval
\* changes only when a fetch has succeeded, and it comes back to
\* baseInterval only in a cycle that found a task or a message.
C24_IntervalSurvivesRestart ==
  [][\A w \in DOMAIN poller :
       LET p == poller[w]
           q == poller'[w] IN
       /\ (frame[w]["stop"].pc = "free" /\ frame'[w]["stop"].pc = "onShutdown")
            => q.currentInterval = p.currentInterval
       /\ Starts(w) => q.currentInterval = p.currentInterval
       /\ q.currentInterval # p.currentInterval =>
            \E s \in CycleSlots :
              /\ frame[w][s].pc = "fetch"
              /\ frame'[w][s].pc \in {"onWork", "onIdle"}
              /\ q.currentInterval = q.baseInterval => frame'[w][s].pc = "onWork"]_vars

\* A run that start() began after idle cycles had raised the interval is in
\* its first cycle: the phase is still boot and the interval is the raised
\* one.
C24_Witness ==
  \E w \in DOMAIN poller :
    /\ poller[w].running
    /\ poller[w].phase = "boot"
    /\ poller[w].baseInterval < poller[w].maxInterval
    /\ poller[w].currentInterval > poller[w].baseInterval
    /\ frame[w]["api"].pc = "fetch"

====
